---- MODULE Spec2Model ----
(***************************************************************************)
(* The TUS upload view set of rest_framework_tus/views.py: the Create,     *)
(* Head, Patch and Terminate handlers over one table of Upload records,    *)
(* run by concurrent request workers.  Every handler works on the          *)
(* in-memory object that get_object() returned; upload.save() writes the   *)
(* whole row back.                                                         *)
(***************************************************************************)
EXTENDS Integers, Sequences, FiniteSets, TLC

\* ------------------------------------------------------------- bounds
MaxChunk == 1
MaxStore == 2
MaxNow == 2
TUS_MAX_FILE_SIZE == 2
TUS_UPLOAD_EXPIRES == 1

Procs == {"w1", "w2"}
Bytes == {0}
Ids == {1}
Metadata == {"{}"}
Algorithms == {"sha1", "md5"}

\* ------------------------------------------------------------- constants
INITIAL == "initial"
RECEIVING == "receiving"
SAVING == "saving"
DONE == "done"

HTTP_200_OK == 200
HTTP_201_CREATED == 201
HTTP_204_NO_CONTENT == 204
HTTP_400_BAD_REQUEST == 400
HTTP_404_NOT_FOUND == 404
HTTP_409_CONFLICT == 409
HTTP_413_REQUEST_ENTITY_TOO_LARGE == 413
HTTP_460_CHECKSUM_MISMATCH == 460
HTTP_500_INTERNAL_SERVER_ERROR == 500

tus_api_checksum_algorithms == {"sha1"}

\* expires is -1 where Python has None
NoUpload == [state |-> "none", upload_offset |-> 0, upload_length |-> -1,
             upload_metadata |-> "", expires |-> -1]
NoFile == <<-1>>
NoRequest == [id |-> 0, upload_offset |-> 0]
NoChecksum == <<"none", 0>>
NoResponse == [op |-> "none", id |-> 0, status |-> 0, detail |-> "",
               no_store |-> FALSE, body |-> NoFile, checksum |-> NoChecksum]

Chunks == UNION {[1..n -> Bytes] : n \in 0..MaxChunk}

VARIABLES
    db,          \* the Upload table: id -> row, NoUpload when there is no row
    created,     \* number of guids handed out so far
    store,       \* id -> the bytes of the upload's byte store
    committed,   \* id -> the offsets non-empty chunks were committed at
    received,    \* id -> the received signal has been sent
    accepted,    \* id -> a Patch for it has been answered 204
    terminated,  \* id -> a Terminate for it has been answered 204
    now,         \* timezone.now()
    pc,          \* worker -> its position in the handler it runs
    req,         \* worker -> the guid and the Upload-Offset of its request
    upload,      \* worker -> the object get_object() returned to it
    chunk_file,  \* worker -> the chunk it staged, NoFile when none
    resp         \* the response sent by the last step, NoResponse when none;
                 \* a Patch response carries the body and checksum it answers

vars == <<db, created, store, committed, received, accepted, terminated, now,
          pc, req, upload, chunk_file, resp>>

\* ------------------------------------------------------------- helpers
Response(op, id, status, detail, no_store) ==
    [op |-> op, id |-> id, status |-> status, detail |-> detail,
     no_store |-> no_store, body |-> NoFile, checksum |-> NoChecksum]

PatchResponse(id, status, detail, body, upload_checksum) ==
    [op |-> "Patch", id |-> id, status |-> status, detail |-> detail,
     no_store |-> FALSE, body |-> body, checksum |-> upload_checksum]

Exists(id) == db[id] # NoUpload

\* Model.save(): UPDATE of every field of the row, INSERT when no row matched
save(id, obj) == [db EXCEPT ![id] = obj]

\* the digest of a chunk under the one supported algorithm
Digest(bytes) == Len(bytes) % 2

is_correct_checksum_for_file(algorithm, digest, bytes) == digest = Digest(bytes)

Checksums == {NoChecksum} \cup (Algorithms \X {0, 1})

\* ------------------------------------------------------------- Init
Init ==
    /\ db = [i \in Ids |-> NoUpload]
    /\ created = 0
    /\ store = [i \in Ids |-> <<>>]
    /\ committed = [i \in Ids |-> {}]
    /\ received = [i \in Ids |-> FALSE]
    /\ accepted = [i \in Ids |-> FALSE]
    /\ terminated = [i \in Ids |-> FALSE]
    /\ now = 0
    /\ pc = [p \in Procs |-> "idle"]
    /\ req = [p \in Procs |-> NoRequest]
    /\ upload = [p \in Procs |-> NoUpload]
    /\ chunk_file = [p \in Procs |-> NoFile]
    /\ resp = NoResponse

\* ------------------------------------------------------------- Create
LengthTooLarge_OffByOne(upload_length) == upload_length > TUS_MAX_FILE_SIZE + 1

LengthTooLarge(upload_length) == upload_length > TUS_MAX_FILE_SIZE

\* "if not upload_length or upload_length < 0": 0 is falsy in Python
LengthNotGiven(upload_length) == upload_length = 0 \/ upload_length < 0

NewUpload(upload_length, upload_metadata) ==
    [state |-> INITIAL, upload_offset |-> 0, upload_length |-> upload_length,
     upload_metadata |-> upload_metadata, expires |-> -1]

\* lines 109-112: the expiry policy is configured, the new object gets its
\* expiry instant and is saved
set_expires(obj) == [obj EXCEPT !.expires = now + TUS_UPLOAD_EXPIRES]

create(upload_length, defer, upload_metadata) ==
    /\ UNCHANGED <<store, committed, received, accepted, terminated, now,
                   pc, req, upload, chunk_file>>
    /\ IF LengthTooLarge(upload_length)
       THEN /\ resp' = Response("Create", 0, HTTP_413_REQUEST_ENTITY_TOO_LARGE,
                                "Invalid Upload-Length", FALSE)
            /\ UNCHANGED <<db, created>>
       ELSE IF LengthNotGiven(upload_length) /\ defer # 1
       THEN /\ resp' = Response("Create", 0, HTTP_400_BAD_REQUEST,
                                "Missing Upload-Defer-Length", FALSE)
            /\ UNCHANGED <<db, created>>
       ELSE /\ created < Cardinality(Ids)
            /\ created' = created + 1
            /\ db' = save(created + 1,
                          set_expires(NewUpload(upload_length, upload_metadata)))
            /\ resp' = Response("Create", created + 1, HTTP_201_CREATED, "", FALSE)

\* ------------------------------------------------------------- Head
\* the response's detail names the Upload-Length header when it is sent
info(id) ==
    /\ UNCHANGED <<db, created, store, committed, received, accepted, terminated,
                   now, pc, req, upload, chunk_file>>
    /\ IF ~Exists(id)
       THEN resp' = Response("Head", id, HTTP_404_NOT_FOUND, "Not found.", TRUE)
       ELSE resp' = Response("Head", id, HTTP_200_OK,
                             IF db[id].upload_length >= 0 THEN "Upload-Length" ELSE "",
                             TRUE)

\* ------------------------------------------------------------- Patch
MediaType == "application/upload_offset+octet-stream"
ContentTypes == {"", "application/offset+octet-stream", MediaType}

\* returns a 400 response or None; a classmethod that raises nothing
validate_content_type(content_type) ==
    IF content_type = "" \/ content_type # MediaType
    THEN Response("Patch", 0, HTTP_400_BAD_REQUEST, "Invalid Content-Type", FALSE)
    ELSE NoResponse

OffsetConflict_Less(upload_offset, obj) == upload_offset < obj.upload_offset

OffsetConflict(upload_offset, obj) == upload_offset # obj.upload_offset

Idle(p) ==
    /\ pc' = [pc EXCEPT ![p] = "idle"]
    /\ req' = [req EXCEPT ![p] = NoRequest]
    /\ upload' = [upload EXCEPT ![p] = NoUpload]

os_remove(file) == NoFile

\* lines 124-142: the content type is validated and the result dropped, the
\* object is fetched, the request's offset is compared with the object's; an
\* object that is not INITIAL needs no save and goes on to stage its chunk
partial_update_begin(p, id, content_type, upload_offset) ==
    /\ pc[p] = "idle"
    /\ UNCHANGED <<db, created, store, committed, received, accepted, terminated,
                   now, chunk_file>>
    /\ LET dropped == validate_content_type(content_type) IN
       IF ~Exists(id)
       THEN /\ resp' = Response("Patch", id, HTTP_404_NOT_FOUND, "Not found.", FALSE)
            /\ Idle(p)
       ELSE IF OffsetConflict(upload_offset, db[id])
       THEN /\ resp' = Response("Patch", id, HTTP_409_CONFLICT, "Conflict", FALSE)
            /\ Idle(p)
       ELSE /\ resp' = NoResponse
            /\ pc' = [pc EXCEPT ![p] =
                        IF db[id].state = INITIAL THEN "receive" ELSE "stage"]
            /\ req' = [req EXCEPT ![p] = [id |-> id, upload_offset |-> upload_offset]]
            /\ upload' = [upload EXCEPT ![p] = db[id]]

start_receiving(obj) == [obj EXCEPT !.state = RECEIVING]

\* lines 142-144: an INITIAL object starts receiving and is saved
partial_update_receive(p) ==
    /\ pc[p] = "receive"
    /\ UNCHANGED <<created, store, committed, received, accepted, terminated, now,
                   req, chunk_file>>
    /\ resp' = NoResponse
    /\ pc' = [pc EXCEPT ![p] = "stage"]
    /\ upload' = [upload EXCEPT ![p] = start_receiving(upload[p])]
    /\ db' = save(req[p].id, start_receiving(upload[p]))

UnsupportedAlgorithm_Known(upload_checksum) == upload_checksum[1] \notin Algorithms

UnsupportedAlgorithm(upload_checksum) ==
    upload_checksum[1] \notin tus_api_checksum_algorithms

\* Upload.write_data: the chunk is appended to the byte store and the object's
\* offset advances by the bytes written; the state is DONE when the offset
\* has reached the length and RECEIVING otherwise
commitChunk(obj, n) ==
    [obj EXCEPT !.upload_offset = @ + n,
                !.state = IF obj.upload_offset + n = obj.upload_length
                          THEN DONE ELSE RECEIVING]

write_data(obj, bytes, chunk_size) == commitChunk(obj, Len(bytes))

IsComplete_AtLeast(obj) == obj.upload_offset >= obj.upload_length

IsComplete(obj) == obj.upload_length = obj.upload_offset

CanWrite(p, bytes) ==
    /\ Len(store[req[p].id]) + Len(bytes) <= MaxStore
    /\ upload[p].upload_offset + Len(bytes) <= MaxStore

\* lines 168-171: write_data raised; the chunk file is removed and the error
\* is the response
write_data_raises_Swallowed(p, body, upload_checksum) ==
    /\ resp' = PatchResponse(req[p].id, HTTP_204_NO_CONTENT,
                             IF IsComplete(upload[p]) THEN "received" ELSE "",
                             body, upload_checksum)
    /\ chunk_file' = [chunk_file EXCEPT ![p] = os_remove(body)]
    /\ UNCHANGED <<db, store, committed, received, accepted>>

write_data_raises(p, body, upload_checksum) ==
    /\ resp' = PatchResponse(req[p].id, HTTP_400_BAD_REQUEST, "Write failed",
                             body, upload_checksum)
    /\ chunk_file' = [chunk_file EXCEPT ![p] = os_remove(body)]
    /\ UNCHANGED <<db, store, committed, received, accepted>>

\* lines 146-184: the body is staged in a chunk file; the checksum header,
\* when there is one, is checked against it; the chunk is written and the
\* chunk file removed whatever the outcome; the received signal is sent when
\* the object is complete
partial_update_write(p) ==
    /\ pc[p] = "stage"
    /\ UNCHANGED <<created, terminated, now>>
    /\ Idle(p)
    /\ \/ \* write_chunk_to_temp_file raises
          /\ resp' = PatchResponse(req[p].id, HTTP_400_BAD_REQUEST,
                                   "Staging failed", NoFile, NoChecksum)
          /\ UNCHANGED <<db, store, committed, received, accepted, chunk_file>>
       \/ \E body \in Chunks, upload_checksum \in Checksums :
             IF upload_checksum # NoChecksum /\ UnsupportedAlgorithm(upload_checksum)
             THEN /\ resp' = PatchResponse(req[p].id, HTTP_400_BAD_REQUEST,
                                           "Unsupported Checksum Algorithm",
                                           body, upload_checksum)
                  /\ chunk_file' = [chunk_file EXCEPT ![p] = os_remove(body)]
                  /\ UNCHANGED <<db, store, committed, received, accepted>>
             ELSE IF /\ upload_checksum # NoChecksum
                     /\ ~is_correct_checksum_for_file(upload_checksum[1],
                                                      upload_checksum[2], body)
             THEN /\ resp' = PatchResponse(req[p].id, HTTP_460_CHECKSUM_MISMATCH,
                                           "Checksum Mismatch.", body, upload_checksum)
                  /\ chunk_file' = [chunk_file EXCEPT ![p] = os_remove(body)]
                  /\ UNCHANGED <<db, store, committed, received, accepted>>
             ELSE \/ write_data_raises(p, body, upload_checksum)
                  \/ /\ CanWrite(p, body)
                     /\ LET id == req[p].id
                            obj == write_data(upload[p], body, Len(body))
                        IN /\ store' = [store EXCEPT ![id] = @ \o body]
                           /\ db' = save(id, obj)
                           /\ committed' = [committed EXCEPT ![id] =
                                 IF body = <<>> THEN @
                                 ELSE @ \cup {upload[p].upload_offset}]
                           /\ received' = [received EXCEPT ![id] =
                                              @ \/ IsComplete(obj)]
                           /\ accepted' = [accepted EXCEPT ![id] = TRUE]
                           /\ chunk_file' = [chunk_file EXCEPT ![p] = os_remove(body)]
                           /\ resp' = PatchResponse(id, HTTP_204_NO_CONTENT,
                                 IF IsComplete(obj) THEN "received" ELSE "",
                                 body, upload_checksum)

\* lines 153-162: the body is staged and is_correct_checksum_for_file raises
\* while it reads the chunk file; nothing catches the error, no line removes
\* the chunk file, and the request ends as a server error
partial_update_verify_raises(p) ==
    /\ pc[p] = "stage"
    /\ UNCHANGED <<db, created, store, committed, received, accepted, terminated, now>>
    /\ Idle(p)
    /\ \E body \in Chunks, upload_checksum \in Checksums :
          /\ upload_checksum # NoChecksum
          /\ ~UnsupportedAlgorithm(upload_checksum)
          /\ resp' = PatchResponse(req[p].id, HTTP_500_INTERNAL_SERVER_ERROR,
                                   "Verification failed", body, upload_checksum)
          /\ chunk_file' = [chunk_file EXCEPT ![p] = body]

\* ------------------------------------------------------------- Terminate
IsSaving_Done(obj) == obj.state = DONE

IsSaving(obj) == obj.state = SAVING

\* lines 197-204: the object is fetched; a SAVING object is not destroyed
destroy_begin(p, id) ==
    /\ pc[p] = "idle"
    /\ UNCHANGED <<db, created, store, committed, received, accepted, terminated,
                   now, chunk_file>>
    /\ IF ~Exists(id)
       THEN /\ resp' = Response("Terminate", id, HTTP_404_NOT_FOUND, "Not found.", FALSE)
            /\ Idle(p)
       ELSE IF IsSaving(db[id])
       THEN /\ resp' = Response("Terminate", id, HTTP_409_CONFLICT,
                                "Unable to terminate upload", FALSE)
            /\ Idle(p)
       ELSE /\ resp' = NoResponse
            /\ pc' = [pc EXCEPT ![p] = "delete"]
            /\ req' = [req EXCEPT ![p] = [id |-> id, upload_offset |-> 0]]
            /\ upload' = [upload EXCEPT ![p] = db[id]]

\* lines 206-209: the row is deleted, and with it the upload's byte store
destroy_delete(p) ==
    /\ pc[p] = "delete"
    /\ UNCHANGED <<created, received, accepted, now, chunk_file>>
    /\ terminated' = [terminated EXCEPT ![req[p].id] = TRUE]
    /\ db' = [db EXCEPT ![req[p].id] = NoUpload]
    /\ store' = [store EXCEPT ![req[p].id] = <<>>]
    /\ committed' = [committed EXCEPT ![req[p].id] = {}]
    /\ resp' = Response("Terminate", req[p].id, HTTP_204_NO_CONTENT, "", FALSE)
    /\ Idle(p)

\* ------------------------------------------------------------- Upload record
\* Upload Record, beginSaving: RECEIVING -> SAVING.  No handler of the view
\* set calls it; it is open to the record's other users.
beginSaving(id) ==
    /\ Exists(id)
    /\ db[id].state = RECEIVING
    /\ db' = [db EXCEPT ![id].state = SAVING]
    /\ resp' = NoResponse
    /\ UNCHANGED <<created, store, committed, received, accepted, terminated, now,
                   pc, req, upload, chunk_file>>

\* ------------------------------------------------------------- time
tick ==
    /\ now < MaxNow
    /\ now' = now + 1
    /\ resp' = NoResponse
    /\ UNCHANGED <<db, created, store, committed, received, accepted, terminated,
                   pc, req, upload, chunk_file>>

\* upload.expires is set and lies in the past
Expired(obj) == obj.expires # -1 /\ now > obj.expires

Next ==
    \/ \E len \in -1..(TUS_MAX_FILE_SIZE + 1), defer \in {-1, 1}, m \in Metadata :
          create(len, defer, m)
    \/ \E id \in Ids : info(id)
    \/ \E p \in Procs, id \in Ids, ct \in ContentTypes, off \in 0..MaxStore :
          partial_update_begin(p, id, ct, off)
    \/ \E p \in Procs : partial_update_receive(p)
    \/ \E p \in Procs : partial_update_write(p)
    \/ \E p \in Procs, id \in Ids : destroy_begin(p, id)
    \/ \E p \in Procs : destroy_delete(p)
    \/ \E id \in Ids : beginSaving(id)

Spec == Init /\ [][Next]_vars

\* the same requests while time passes
SpecClock == Init /\ [][Next \/ tick]_vars

\* the same requests where reading the staged chunk back can fail
SpecVerify == Init /\ [][Next \/ \E p \in Procs : partial_update_verify_raises(p)]_vars

\* a request that has been started runs to its response
Fairness ==
    \A p \in Procs :
        /\ WF_vars(partial_update_receive(p))
        /\ WF_vars(partial_update_write(p))
        /\ WF_vars(destroy_delete(p))

FairSpec == Spec /\ Fairness

\* ------------------------------------------------------------- steps
\* worker p's Patch commits its chunk and is answered 204 in this step
Commits(p) ==
    /\ pc[p] = "stage" /\ pc'[p] = "idle"
    /\ resp'.op = "Patch" /\ resp'.status = HTTP_204_NO_CONTENT

\* worker p's Patch passes the offset check in this step
Validates(p) == pc[p] = "idle" /\ pc'[p] \in {"receive", "stage"}


\* worker p's Terminate passes the state check in this step
StartsDelete(p) == pc[p] = "idle" /\ pc'[p] = "delete"

Answers(op, status) == resp'.op = op /\ resp'.status = status

\* ------------------------------------------------------------- claims

\* C1: chunk commits of one upload are serialized: two Patches that observed
\* the same recorded offset never both commit their (non-empty) chunk.
C1_SerializedCommits ==
    [][\A p \in Procs :
          (Commits(p) /\ resp'.body # <<>>)
              => upload[p].upload_offset \notin committed[req[p].id]]_vars

\* C2: a Patch passes the offset check only with the recorded offset, and a
\* Patch answered 409 changes neither the record nor the byte store.
C2_OffsetConflictRejected ==
    [][/\ \A p \in Procs :
             Validates(p) => req'[p].upload_offset = db[req'[p].id].upload_offset
       /\ Answers("Patch", HTTP_409_CONFLICT)
             => /\ db' = db /\ store' = store
                /\ \A p \in Procs : pc'[p] = "idle" \/ pc'[p] = pc[p]]_vars

C2_Witness ==
    /\ resp.op = "Patch" /\ resp.status = HTTP_409_CONFLICT
    /\ Exists(1) /\ db[1].upload_offset = 1 /\ Len(store[1]) = 1

\* C3: the recorded offset of an upload is the number of bytes in its byte
\* store, which holds every committed chunk once, in commit order.
C3_OffsetIsStoreLength ==
    \A id \in Ids : Exists(id) => db[id].upload_offset = Len(store[id])

\* C4: an upload's offset never decreases, and changes only in a step that
\* commits a chunk.
C4_OffsetMonotone ==
    [][\A id \in Ids :
          (Exists(id) /\ db'[id] # NoUpload)
              => /\ db'[id].upload_offset >= db[id].upload_offset
                 /\ db'[id].upload_offset # db[id].upload_offset
                       => \E p \in Procs : Commits(p)]_vars

\* C5: an upload of known length has 0 <= upload_offset <= upload_length.
C5_OffsetWithinLength ==
    \A id \in Ids :
        (Exists(id) /\ db[id].upload_length >= 0)
            => /\ 0 <= db[id].upload_offset
               /\ db[id].upload_offset <= db[id].upload_length

C7_TerminateUnlessSaving ==
    [][/\ \A p \in Procs :
             (pc[p] = "idle" /\ (resp'.op = "Terminate" \/ pc'[p] = "delete"))
                 => \A id \in Ids :
                       (Exists(id) /\ destroy_begin(p, id))
                           => IF db[id].state = SAVING
                              THEN /\ Answers("Terminate", HTTP_409_CONFLICT)
                                   /\ db' = db /\ store' = store /\ pc'[p] = "idle"
                              ELSE StartsDelete(p) /\ db' = db
       /\ \A p \in Procs :
             (pc[p] = "delete" /\ pc'[p] = "idle")
                 => /\ Answers("Terminate", HTTP_204_NO_CONTENT)
                    /\ db'[req[p].id] = NoUpload
       /\ Answers("Terminate", HTTP_204_NO_CONTENT) => db'[resp'.id] = NoUpload
       /\ Answers("Terminate", HTTP_409_CONFLICT) => db' = db]_vars

C7_Witness ==
    /\ resp.op = "Terminate" /\ resp.status = HTTP_409_CONFLICT
    /\ Exists(1) /\ db[1].state = SAVING /\ db[1].upload_offset = 1

\* C8: the received signal of an upload is sent once: by the Patch whose
\* commit completes the upload, and by no later request.
C8_ReceivedOnce ==
    [][\A p \in Procs :
          (Commits(p) /\ resp'.detail = "received") => ~received[req[p].id]]_vars

\* C9: a Patch that finds the upload DONE writes nothing: it leaves the
\* record and the byte store as they are and is not answered 204.
C9_NoWriteOnceDone ==
    [][\A p \in Procs :
          (pc[p] = "stage" /\ pc'[p] = "idle" /\ upload[p].state = DONE)
              => /\ db' = db /\ store' = store
                 /\ ~Answers("Patch", HTTP_204_NO_CONTENT)]_vars

\* C10: a Create adds a record exactly when it is answered 201; a length over
\* the maximum is answered 413, a missing length without the defer header
\* 400; the record added is INITIAL with offset 0.
C10_CreateIffCreated ==
    [][/\ resp'.op = "Create"
             => /\ \A len \in -1..(TUS_MAX_FILE_SIZE + 1), defer \in {-1, 1},
                      m \in Metadata :
                      create(len, defer, m)
                          => /\ len > TUS_MAX_FILE_SIZE
                                   => resp'.status = HTTP_413_REQUEST_ENTITY_TOO_LARGE
                             /\ (len = -1 /\ defer # 1)
                                   => resp'.status = HTTP_400_BAD_REQUEST
                /\ IF resp'.status = HTTP_201_CREATED
                   THEN /\ created' = created + 1
                        /\ ~Exists(resp'.id)
                        /\ db'[resp'.id].state = INITIAL
                        /\ db'[resp'.id].upload_offset = 0
                        /\ \A i \in Ids \ {resp'.id} : db'[i] = db[i]
                   ELSE db' = db /\ created' = created
       /\ created' # created => Answers("Create", HTTP_201_CREATED)]_vars

C10_Witness ==
    /\ resp.op = "Create" /\ resp.status = HTTP_413_REQUEST_ENTITY_TOO_LARGE
    /\ created = 0 /\ \A i \in Ids : ~Exists(i)

\* C11: a Create that declares the length 0 needs no defer header: it is
\* answered 201 and adds the record.
C11_ZeroLengthAccepted ==
    [][\A defer \in {-1, 1}, m \in Metadata :
          (created < Cardinality(Ids) /\ create(0, defer, m))
              => /\ Answers("Create", HTTP_201_CREATED)
                 /\ db'[resp'.id].upload_length = 0]_vars

\* C12: a Patch whose Content-Type is missing or is not the media type is
\* answered 400 and goes no further: it stages nothing and leaves the record
\* and the byte store as they are.
C12_ContentTypeRejected ==
    [][\A p \in Procs, id \in Ids, ct \in ContentTypes, off \in 0..MaxStore :
          (/\ ct # MediaType
           /\ Exists(id) /\ off = db[id].upload_offset
           /\ partial_update_begin(p, id, ct, off))
              => /\ Answers("Patch", HTTP_400_BAD_REQUEST)
                 /\ pc'[p] = "idle"
                 /\ db' = db /\ store' = store]_vars

\* C13: a Head is answered 200 and a Patch passes its checks or is answered
\* 204 only for an upload whose expires instant has not passed.
C13_ExpiredIsInvalid ==
    [][/\ Answers("Head", HTTP_200_OK) => ~Expired(db[resp'.id])
       /\ \A p \in Procs :
             /\ Validates(p) => ~Expired(db[req'[p].id])
             /\ Commits(p) => ~Expired(upload[p])]_vars

\* worker p has a Patch for the upload id in flight
InFlight(p, id) == pc[p] \in {"receive", "stage"} /\ req[p].id = id

\* C14: a Head for an id without a record is answered 404 with no-store, and
\* once a Terminate for an id has been answered 204 every Head for it is
\* answered so and no Patch for it finds a record.
C14_HeadOfAbsent ==
    [][/\ resp'.op = "Head"
             => /\ ~Exists(resp'.id)
                      => Answers("Head", HTTP_404_NOT_FOUND) /\ resp'.no_store
                /\ terminated[resp'.id]
                      => Answers("Head", HTTP_404_NOT_FOUND) /\ resp'.no_store
       /\ \A p \in Procs : Validates(p) => ~terminated[req'[p].id]]_vars

\* the upload's length was deferred at Create and has not been set
Deferred(obj) == obj.state # "none" /\ obj.upload_length < 0

C16_InitialUntilAccepted ==
    \A id \in Ids :
        (Exists(id) /\ ~accepted[id] /\ \A p \in Procs : ~InFlight(p, id))
            => db[id].state = INITIAL

\* C17: when no Patch is in flight, no chunk file exists.
C17_NoChunkFileLeft ==
    (\A p \in Procs : pc[p] \notin {"receive", "stage"})
        => \A p \in Procs : chunk_file[p] = NoFile

\* C18: a chunk is committed whole or not at all: a Patch whose write fails
\* is answered 400, sends no received signal and has its chunk file removed;
\* a Patch that is not answered 204 leaves the record and the byte store as
\* they were, and one answered 204 has appended its whole chunk and moved the
\* offset by the chunk's size.
C18_FailedWriteChangesNothing ==
    [][\A p \in Procs :
          (pc[p] = "stage" /\ pc'[p] = "idle")
              => /\ (\E body \in Chunks, upload_checksum \in Checksums :
                        write_data_raises(p, body, upload_checksum))
                       => /\ Answers("Patch", HTTP_400_BAD_REQUEST)
                          /\ resp'.detail # "received"
                          /\ chunk_file'[p] = NoFile
                 /\ IF resp'.status = HTTP_204_NO_CONTENT
                    THEN /\ store'[req[p].id] = store[req[p].id] \o resp'.body
                         /\ db'[req[p].id].upload_offset
                               = upload[p].upload_offset + Len(resp'.body)
                    ELSE db' = db /\ store' = store /\ received' = received]_vars

C18_Witness ==
    /\ resp.op = "Patch" /\ resp.status = HTTP_400_BAD_REQUEST
    /\ resp.detail = "Write failed" /\ resp.body # <<>>
    /\ Exists(1) /\ db[1].upload_offset = 1 /\ Len(store[1]) = 1
    /\ db[1].upload_length = 2 /\ ~received[1]

C20_TerminateExcludesPatch ==
    [][/\ \A id \in Ids :
             terminated[id] => db'[id] = NoUpload /\ store'[id] = store[id]
       /\ \A p \in Procs : Commits(p) => ~terminated[req[p].id]]_vars
====
